---- MODULE Spec2Model ----
(***************************************************************************)
(* A model of the JIRA analytics tool (src/jira_analytics.py).             *)
(*                                                                         *)
(* Three specifications share this module:                                 *)
(*   Spec       calculate_time_in_status on one issue and its changelog    *)
(*   SpecAgg    the generate_* aggregators over an issue list              *)
(*   SpecFetch  get_issues_by_project paging through the search endpoint   *)
(*                                                                         *)
(* Timestamps are whole days in one time zone and one format, so that the  *)
(* order of the timestamp strings is the order of the instants and         *)
(* total_seconds() / (24 * 3600) is the difference of the day numbers.     *)
(* Status names are sequences of characters, so that lower() and the `in`  *)
(* substring test are computed and not looked up.                          *)
(***************************************************************************)
EXTENDS Integers, Sequences, FiniteSets, TLC

VARIABLES
    issue,              \* the issue handed to calculate_time_in_status
    transitions,        \* what get_issue_transitions returned
    time_in_status,     \* the local dict of calculate_time_in_status
    current_status,     \* the tracked status
    status_start_time,  \* the running cursor
    idx,                \* position of the for loop in transitions
    result,             \* the returned dict (meaningful when pc = "done")
    pc,
    issues,             \* the issue list handed to a generate_* method
    report,             \* which generate_* method has run
    fault,              \* the exception it raised, if any
    durations,          \* generate_open_duration_histogram
    all_status_times,   \* generate_status_time_distribution
    date_range,         \* generate_daily_task_trend
    created_counts,
    closed_counts,
    cumulative_created,
    cumulative_closed,
    top_n,              \* generate_user_task_distribution
    top_assignees,
    top_reporters,
    user_logged_times,  \* generate_logged_time_histogram
    priority_counts,    \* generate_priority_distribution
    tracker_total,      \* how many issues the tracker holds for the project
    page_cap,           \* how many issues the tracker returns per request
    max_results,        \* get_issues_by_project
    total_issues,
    all_issues,
    start_at,
    count_failed,       \* history: the request for the total failed
    failed_at,          \* history: the startAt of the page requests that failed
    fpc

tisVars == <<issue, transitions, time_in_status, current_status,
             status_start_time, idx, result, pc>>

aggVars == <<issues, report, fault, durations, all_status_times, date_range,
             created_counts,
             closed_counts, cumulative_created, cumulative_closed, top_n,
             top_assignees, top_reporters, user_logged_times, priority_counts>>

fetchVars == <<tracker_total, page_cap, max_results, total_issues, all_issues,
               start_at, count_failed, failed_at, fpc>>

vars == <<tisVars, aggVars, fetchVars>>

----------------------------------------------------------------------------
(* Bounds of the model *)

MaxTime == 2
MaxHistories == 2
MaxIssues == 2
MaxUserIssues == 3
MaxTopN == 2
MaxTotal == 4
MaxResults == 3

----------------------------------------------------------------------------
(* Strings *)

UpperAlpha == <<"A","B","C","D","E","F","G","H","I","J","K","L","M",
                "N","O","P","Q","R","S","T","U","V","W","X","Y","Z">>
LowerAlpha == <<"a","b","c","d","e","f","g","h","i","j","k","l","m",
                "n","o","p","q","r","s","t","u","v","w","x","y","z">>

LowerChar(c) ==
    IF \E i \in DOMAIN UpperAlpha : UpperAlpha[i] = c
    THEN LowerAlpha[CHOOSE i \in DOMAIN UpperAlpha : UpperAlpha[i] = c]
    ELSE c

\* str.lower()
Lower(s) == [i \in 1..Len(s) |-> LowerChar(s[i])]

\* sub in s
Contains(sub, s) ==
    \E i \in 0..(Len(s) - Len(sub)) :
        \A j \in 1..Len(sub) : s[i + j] = sub[j]

closed == <<"c","l","o","s","e","d">>
resolved == <<"r","e","s","o","l","v","e","d">>
done == <<"d","o","n","e">>

\* IsClosedStatus without the call of lower()
IsClosedStatusCaseSensitive(name) ==
    Contains(closed, name) \/ Contains(resolved, name) \/ Contains(done, name)

\* 'closed' in s.lower() or 'resolved' in s.lower() or 'done' in s.lower()
IsClosedStatus(name) ==
    LET status_name == Lower(name)
    IN  Contains(closed, status_name)
        \/ Contains(resolved, status_name)
        \/ Contains(done, status_name)

Open == <<"O","p","e","n">>
InProgress == <<"I","n"," ","P","r","o","g","r","e","s","s">>
Done == <<"D","o","n","e">>

----------------------------------------------------------------------------
(* Python values *)

\* None, where the code expects a dict (a JSON object)
None == [isNone |-> TRUE]

\* None, where the code expects a string
NoneStr == <<"None">>

\* {}
EmptyDict == [k \in {} |-> 0]

\* the truth value of a string or None: None and "" are false
TruthyStr(v) == v # NoneStr /\ v # <<>>

\* (b - a).total_seconds() / (24 * 3600)
Days(a, b) == b - a

\* Accumulate with `=` in place of `+=`: a second visit replaces the first
AccumulateOverwrite(d, k, v) ==
    [x \in DOMAIN d \cup {k} |-> IF x = k THEN v ELSE d[x]]

\* if k not in d: d[k] = 0
\* d[k] += v
Accumulate(d, k, v) ==
    IF k \in DOMAIN d
    THEN [d EXCEPT ![k] = @ + v]
    ELSE [x \in DOMAIN d \cup {k} |-> IF x = k THEN 0 + v ELSE d[x]]

----------------------------------------------------------------------------
(* get_issue_transitions *)

RECURSIVE InsertByTimestamp(_, _)
InsertByTimestamp(t, sorted) ==
    IF sorted = <<>> THEN <<t>>
    ELSE IF t.timestamp < Head(sorted).timestamp
         THEN <<t>> \o sorted
         ELSE <<Head(sorted)>> \o InsertByTimestamp(t, Tail(sorted))

\* transitions.sort(key=lambda x: x['timestamp']): a stable sort
RECURSIVE SortByTimestamp(_)
SortByTimestamp(ts) ==
    IF ts = <<>> THEN <<>>
    ELSE InsertByTimestamp(ts[Len(ts)], SortByTimestamp(SubSeq(ts, 1, Len(ts) - 1)))

\* the loop over the histories: one transition per item whose field is status
RECURSIVE StatusItems(_)
StatusItems(histories) ==
    IF histories = <<>> THEN <<>>
    ELSE LET history == Head(histories)
         IN  (IF history.field = "status"
              THEN <<[timestamp |-> history.created,
                      from_status |-> history.fromString,
                      to_status |-> history.toString]>>
              ELSE <<>>) \o StatusItems(Tail(histories))

GetIssueTransitionsOf(histories) == SortByTimestamp(StatusItems(histories))

----------------------------------------------------------------------------
(* Inputs of calculate_time_in_status: an issue and the changelog the      *)
(* tracker answers with.  A changelog entry carries one item.              *)

Times == 0..MaxTime
Statuses == {Open, Done}

Issues == [created : Times, updated : Times, status : Statuses]

StatusChanges ==
    [created : Times, field : {"status"},
     fromString : Statuses \cup {NoneStr}, toString : Statuses]

OtherChanges ==
    [created : Times, field : {"assignee"},
     fromString : {NoneStr}, toString : {NoneStr}]

Changelogs ==
    UNION {[1..n -> StatusChanges \cup OtherChanges] : n \in 0..MaxHistories}

\* the issue and the changelog of the worked example
ScenarioIssue == [created |-> 1, updated |-> 10, status |-> Done]

ScenarioHistories ==
    <<[created |-> 3, field |-> "status",
       fromString |-> Open, toString |-> InProgress],
      [created |-> 10, field |-> "status",
       fromString |-> InProgress, toString |-> Done]>>

----------------------------------------------------------------------------
(* calculate_time_in_status *)

InitTimeInStatus ==
    /\ issue \in Issues \cup {ScenarioIssue}
    /\ transitions = <<>>
    /\ time_in_status = EmptyDict
    /\ current_status = NoneStr
    /\ status_start_time = 0
    /\ idx = 0
    /\ result = EmptyDict
    /\ pc = "start"

\* transitions = self.get_issue_transitions(issue['key'])
GetIssueTransitions ==
    /\ pc = "start"
    /\ \E histories \in Changelogs \cup {ScenarioHistories} :
          transitions' = GetIssueTransitionsOf(histories)
    /\ pc' = "fetched"
    /\ UNCHANGED <<issue, time_in_status, current_status, status_start_time,
                   idx, result>>
    /\ UNCHANGED <<aggVars, fetchVars>>

\* if not transitions: return {}
ReturnEmpty ==
    /\ pc = "fetched"
    /\ transitions = <<>>
    /\ result' = EmptyDict
    /\ pc' = "done"
    /\ UNCHANGED <<issue, transitions, time_in_status, current_status,
                   status_start_time, idx>>
    /\ UNCHANGED <<aggVars, fetchVars>>

\* created, time_in_status = {}, current_status, status_start_time = created
StartAccounting ==
    /\ pc = "fetched"
    /\ transitions # <<>>
    /\ time_in_status' = EmptyDict
    /\ current_status' = issue.status
    /\ status_start_time' = issue.created
    /\ idx' = 1
    /\ pc' = "loop"
    /\ UNCHANGED <<issue, transitions, result>>
    /\ UNCHANGED <<aggVars, fetchVars>>

\* AddTimeSpent without the test of from_status
AddTimeSpentAlways(d, transition, start) ==
    Accumulate(d, transition.from_status, Days(start, transition.timestamp))

\* the body of `for transition in transitions`, on the dict
AddTimeSpent(d, transition, start) ==
    IF TruthyStr(transition.from_status)
    THEN Accumulate(d, transition.from_status, Days(start, transition.timestamp))
    ELSE d

ProcessTransition ==
    /\ pc = "loop"
    /\ idx <= Len(transitions)
    /\ LET transition == transitions[idx]
       IN  /\ time_in_status' = AddTimeSpent(time_in_status, transition, status_start_time)
           /\ status_start_time' = transition.timestamp
           /\ current_status' = transition.to_status
    /\ idx' = idx + 1
    /\ UNCHANGED <<issue, transitions, result, pc>>
    /\ UNCHANGED <<aggVars, fetchVars>>

\* AddFinalTime measuring the final interval from the wrong end
AddFinalTimeReversed(d, status, start, updated) ==
    IF IsClosedStatus(status)
    THEN Accumulate(d, status, Days(updated, start))
    ELSE d

\* AddFinalTime without the test of the tracked status
AddFinalTimeAlways(d, status, start, updated) ==
    Accumulate(d, status, Days(start, updated))

\* the final status: accumulated when the tracked status is a closed one
AddFinalTime(d, status, start, updated) ==
    IF IsClosedStatus(status)
    THEN Accumulate(d, status, Days(start, updated))
    ELSE d

HandleFinalStatus ==
    /\ pc = "loop"
    /\ idx > Len(transitions)
    /\ time_in_status' = AddFinalTime(time_in_status, current_status,
                                      status_start_time, issue.updated)
    /\ result' = time_in_status'
    /\ pc' = "done"
    /\ UNCHANGED <<issue, transitions, current_status, status_start_time, idx>>
    /\ UNCHANGED <<aggVars, fetchVars>>

IdleTimeInStatus ==
    /\ issue = ScenarioIssue
    /\ transitions = <<>>
    /\ time_in_status = EmptyDict
    /\ current_status = NoneStr
    /\ status_start_time = 0
    /\ idx = 0
    /\ result = EmptyDict
    /\ pc = "idle"

----------------------------------------------------------------------------
(* Inputs of the generate_* methods: issue lists.  An issue is its         *)
(* 'fields' dict, with the status held as its name.  Each family of lists  *)
(* varies the fields one group of methods reads.                           *)

Reopened == <<"R","e","o","p","e","n","e","d">>
DONE == <<"D","O","N","E">>
Closed == <<"C","l","o","s","e","d">>
Resolved == <<"R","e","s","o","l","v","e","d">>

StatusNames == {Open, InProgress, Reopened, Done, DONE, Closed, Resolved}

SecondsPerHour == 3600

Ann == [displayName |-> "Ann"]
Bob == [displayName |-> "Bob"]
Cy == [displayName |-> "Cy"]
Major == [name |-> "Major"]

\* a key the tracker left out of 'fields'
Absent == [isAbsent |-> TRUE]

OptionalKeys == {"assignee", "priority", "timetracking"}

WithoutAbsent(fields) ==
    [k \in {x \in DOMAIN fields : x \notin OptionalKeys \/ fields[x] # Absent}
        |-> fields[k]]

\* lists of at most n issues drawn from a set
ListsOf(S, n) == UNION {[1..m -> S] : m \in 0..n}

DatedIssues ==
    [created : Times, updated : Times, status : Statuses,
     assignee : {Ann}, reporter : {Bob}, priority : {Major},
     timetracking : {EmptyDict}]

NamedIssues ==
    [created : {0}, updated : {MaxTime}, status : StatusNames,
     assignee : {Ann}, reporter : {Bob}, priority : {Major},
     timetracking : {EmptyDict}]

UserIssues ==
    [created : {0}, updated : {0}, status : {Open},
     assignee : {None, Ann, Bob, Cy}, reporter : {Ann, Bob},
     priority : {Major}, timetracking : {EmptyDict}]

FieldIssues ==
    {WithoutAbsent(f) :
        f \in [created : {0}, updated : {0}, status : {Done},
               assignee : {Absent, None, Ann}, reporter : {Bob},
               priority : {Absent, None, Major},
               timetracking : {Absent, None, EmptyDict,
                               [timeSpentSeconds |-> 2 * SecondsPerHour]}]}

\* what the tracker holds as the changelog of an issue of the last family
TrackedChangelogs ==
    {<<>>, ScenarioHistories} \cup {<<change>> : change \in StatusChanges}

\* issues with, as `changelog`, the tracker's answer for the issue's key
TrackedIssues ==
    [created : {0}, updated : {MaxTime}, status : {Done},
     assignee : {Ann}, reporter : {Bob}, priority : {Major},
     timetracking : {EmptyDict}, changelog : TrackedChangelogs]

IssueLists ==
    ListsOf(DatedIssues, MaxIssues)
    \cup ListsOf(TrackedIssues, MaxIssues)
    \cup ListsOf(NamedIssues, MaxIssues)
    \cup ListsOf(UserIssues, MaxUserIssues)
    \cup ListsOf(FieldIssues, MaxIssues)

DefaultTopN == 30

TopNs == (0..MaxTopN) \cup {DefaultTopN}

----------------------------------------------------------------------------
(* More Python values *)

NoFault == "none"

\* d.get(k, default)
Get(d, k, default) == IF k \in DOMAIN d THEN d[k] ELSE default

\* the truth value of a dict or None: None and {} are false
TruthyDict(v) == v # None /\ DOMAIN v # {}

\* d[k] += 1 on a defaultdict(int), kept as the list of its items in
\* insertion order
Increment(items, k) ==
    IF \E i \in DOMAIN items : items[i][1] = k
    THEN [i \in DOMAIN items |->
            IF items[i][1] = k THEN <<k, items[i][2] + 1>> ELSE items[i]]
    ELSE Append(items, <<k, 1>>)

Front(s) == SubSeq(s, 1, Len(s) - 1)

Last(s) == s[Len(s)]

\* s[:n], for n >= 0
Take(s, n) == SubSeq(s, 1, IF n < Len(s) THEN n ELSE Len(s))

----------------------------------------------------------------------------
(* calculate_open_duration, generate_open_duration_histogram *)

\* Optional[float]: None, or the duration in days as [days |-> d]
CalculateOpenDuration(i) ==
    IF ~IsClosedStatus(i.status)
    THEN None
    ELSE [days |-> Days(i.created, i.updated)]

\* OpenDurations with `durations = [duration]` in place of the append
RECURSIVE OpenDurationsLastOnly(_)
OpenDurationsLastOnly(iss) ==
    IF iss = <<>> THEN <<>>
    ELSE LET duration == CalculateOpenDuration(Last(iss))
         IN  IF duration # None
             THEN <<duration.days>>
             ELSE OpenDurationsLastOnly(Front(iss))

\* the loop that fills `durations`
RECURSIVE OpenDurations(_)
OpenDurations(iss) ==
    IF iss = <<>> THEN <<>>
    ELSE LET duration == CalculateOpenDuration(Last(iss))
         IN  IF duration # None
             THEN Append(OpenDurations(Front(iss)), duration.days)
             ELSE OpenDurations(Front(iss))

----------------------------------------------------------------------------
(* generate_status_time_distribution *)

\* time_in_status after the first n iterations of the loop
RECURSIVE TimeAfter(_, _, _)
TimeAfter(i, ts, n) ==
    IF n = 0 THEN EmptyDict
    ELSE AddTimeSpent(TimeAfter(i, ts, n - 1), ts[n],
                      IF n = 1 THEN i.created ELSE ts[n - 1].timestamp)

\* what calculate_time_in_status returns for an issue whose transitions
\* are ts
TimeInStatusOf(i, ts) ==
    IF ts = <<>> THEN EmptyDict
    ELSE AddFinalTime(TimeAfter(i, ts, Len(ts)), ts[Len(ts)].to_status,
                      ts[Len(ts)].timestamp, i.updated)

\* self.calculate_time_in_status(issue), the tracker answering with the
\* issue's changelog (nothing for an issue it has no changelog of)
CalculateTimeInStatus(i) ==
    TimeInStatusOf(i, GetIssueTransitionsOf(Get(i, "changelog", <<>>)))

\* all_status_times[status].append(time_spent) for every item of the dict
AppendTimes(all, status_times) ==
    [s \in DOMAIN all \cup DOMAIN status_times |->
        (IF s \in DOMAIN all THEN all[s] ELSE <<>>)
        \o (IF s \in DOMAIN status_times THEN <<status_times[s]>> ELSE <<>>)]

\* the loop that fills all_status_times
RECURSIVE AllStatusTimes(_)
AllStatusTimes(iss) ==
    IF iss = <<>> THEN EmptyDict
    ELSE AppendTimes(AllStatusTimes(Front(iss)), CalculateTimeInStatus(Last(iss)))

----------------------------------------------------------------------------
(* generate_daily_task_trend *)

\* parser.parse(s).date(): timestamps are whole days
DateOf(timestamp) == timestamp

RECURSIVE CreatedDates(_)
CreatedDates(iss) ==
    IF iss = <<>> THEN <<>>
    ELSE Append(CreatedDates(Front(iss)), DateOf(Last(iss).created))

RECURSIVE ClosedDates(_)
ClosedDates(iss) ==
    IF iss = <<>> THEN <<>>
    ELSE IF IsClosedStatus(Last(iss).status)
         THEN Append(ClosedDates(Front(iss)), DateOf(Last(iss).updated))
         ELSE ClosedDates(Front(iss))

Elements(s) == {s[i] : i \in DOMAIN s}

MinOf(S) == CHOOSE x \in S : \A y \in S : x <= y

MaxOf(S) == CHOOSE x \in S : \A y \in S : y <= x

RECURSIVE Ascending(_)
Ascending(S) ==
    IF S = {} THEN <<>>
    ELSE <<MinOf(S)>> \o Ascending(S \ {MinOf(S)})

\* a date range that holds the observed dates only
DateRangeObserved(min_date, max_date, all_dates) == Ascending(all_dates)

\* pd.date_range(start=min_date, end=max_date, freq='D')
DateRange(min_date, max_date, all_dates) ==
    [i \in 1..(max_date - min_date + 1) |-> min_date + (i - 1)]

\* list.count(x)
Count(s, x) == Cardinality({i \in DOMAIN s : s[i] = x})

\* np.cumsum
RECURSIVE CumSum(_)
CumSum(s) ==
    IF s = <<>> THEN <<>>
    ELSE LET before == CumSum(Front(s))
         IN  Append(before, (IF before = <<>> THEN 0 ELSE Last(before)) + Last(s))

----------------------------------------------------------------------------
(* generate_user_task_distribution *)

\* the loop that fills assignee_counts or reporter_counts
RECURSIVE UserCounts(_, _)
UserCounts(iss, field) ==
    IF iss = <<>> THEN <<>>
    ELSE LET user == Get(Last(iss), field, None)
         IN  IF TruthyDict(user) /\ "displayName" \in DOMAIN user
             THEN Increment(UserCounts(Front(iss), field), user.displayName)
             ELSE UserCounts(Front(iss), field)

RECURSIVE InsertByCount(_, _)
InsertByCount(x, sorted) ==
    IF sorted = <<>> THEN <<x>>
    ELSE IF Head(sorted)[2] < x[2]
         THEN <<x>> \o sorted
         ELSE <<Head(sorted)>> \o InsertByCount(x, Tail(sorted))

\* a descending sort obtained by reversing an ascending one: equal counts
\* come out in reverse order
RECURSIVE SortedByCountReversed(_)
SortedByCountReversed(items) ==
    IF items = <<>> THEN <<>>
    ELSE InsertByCount(Head(items), SortedByCountReversed(Tail(items)))

\* sorted(items, key=lambda x: x[1], reverse=True): stable, equal counts
\* keep the order of the items
RECURSIVE SortedByCount(_)
SortedByCount(items) ==
    IF items = <<>> THEN <<>>
    ELSE InsertByCount(Last(items), SortedByCount(Front(items)))

----------------------------------------------------------------------------
(* generate_logged_time_histogram *)

\* time_spent_seconds / 3600.0, for whole hours
Hours(time_spent_seconds) == time_spent_seconds \div SecondsPerHour

\* the loop that fills user_logged_times; `in` on None raises TypeError
RECURSIVE UserLoggedTimes(_)
UserLoggedTimes(iss) ==
    IF iss = <<>> THEN [fault |-> NoFault, value |-> EmptyDict]
    ELSE LET before == UserLoggedTimes(Front(iss))
             timetracking == Get(Last(iss), "timetracking", EmptyDict)
             assignee == Get(Last(iss), "assignee", None)
         IN  IF before.fault # NoFault THEN before
             ELSE IF timetracking = None
             THEN [fault |-> "TypeError", value |-> before.value]
             ELSE IF "timeSpentSeconds" \in DOMAIN timetracking
                     /\ TruthyDict(assignee)
                     /\ "displayName" \in DOMAIN assignee
             THEN [fault |-> NoFault,
                   value |-> Accumulate(before.value, assignee.displayName,
                                        Hours(timetracking.timeSpentSeconds))]
             ELSE before

----------------------------------------------------------------------------
(* generate_priority_distribution *)

\* the loop that fills priority_counts; .get on None raises AttributeError
RECURSIVE PriorityCounts(_)
PriorityCounts(iss) ==
    IF iss = <<>> THEN [fault |-> NoFault, value |-> EmptyDict]
    ELSE LET before == PriorityCounts(Front(iss))
             priority == Get(Last(iss), "priority", EmptyDict)
         IN  IF before.fault # NoFault THEN before
             ELSE IF priority = None
             THEN [fault |-> "AttributeError", value |-> before.value]
             ELSE [fault |-> NoFault,
                   value |-> Accumulate(before.value,
                                        Get(priority, "name", "Unknown"), 1)]

----------------------------------------------------------------------------
(* The generate_* methods, each called on the issue list *)

InitAggregate ==
    /\ issues \in IssueLists
    /\ report = "none"
    /\ fault = NoFault
    /\ durations = <<>>
    /\ all_status_times = EmptyDict
    /\ date_range = <<>>
    /\ created_counts = <<>>
    /\ closed_counts = <<>>
    /\ cumulative_created = <<>>
    /\ cumulative_closed = <<>>
    /\ top_n = 0
    /\ top_assignees = <<>>
    /\ top_reporters = <<>>
    /\ user_logged_times = EmptyDict
    /\ priority_counts = EmptyDict

IdleAggregate ==
    /\ issues = <<>>
    /\ report = "idle"
    /\ fault = NoFault
    /\ durations = <<>>
    /\ all_status_times = EmptyDict
    /\ date_range = <<>>
    /\ created_counts = <<>>
    /\ closed_counts = <<>>
    /\ cumulative_created = <<>>
    /\ cumulative_closed = <<>>
    /\ top_n = 0
    /\ top_assignees = <<>>
    /\ top_reporters = <<>>
    /\ user_logged_times = EmptyDict
    /\ priority_counts = EmptyDict

GenerateOpenDurationHistogram ==
    /\ report = "none"
    /\ durations' = OpenDurations(issues)
    /\ report' = "open_duration"
    /\ UNCHANGED <<issues, fault, date_range, created_counts, closed_counts,
                   cumulative_created, cumulative_closed, top_n,
                   top_assignees, top_reporters, user_logged_times,
                   priority_counts>>
    /\ UNCHANGED <<all_status_times, tisVars, fetchVars>>

GenerateStatusTimeDistribution ==
    /\ report = "none"
    /\ all_status_times' = AllStatusTimes(issues)
    /\ report' = "status_time"
    /\ UNCHANGED <<issues, fault, durations, date_range, created_counts,
                   closed_counts, cumulative_created, cumulative_closed, top_n,
                   top_assignees, top_reporters, user_logged_times,
                   priority_counts>>
    /\ UNCHANGED <<tisVars, fetchVars>>

GenerateDailyTaskTrend ==
    /\ report = "none"
    /\ LET created_dates == CreatedDates(issues)
           closed_dates == ClosedDates(issues)
           all_dates == Elements(created_dates \o closed_dates)
       IN  IF created_dates = <<>> /\ closed_dates = <<>>
           THEN UNCHANGED <<date_range, created_counts, closed_counts,
                            cumulative_created, cumulative_closed>>
           ELSE /\ date_range' = DateRange(MinOf(all_dates), MaxOf(all_dates),
                                           all_dates)
                /\ created_counts' =
                     [i \in DOMAIN date_range' |->
                        Count(created_dates, date_range'[i])]
                /\ closed_counts' =
                     [i \in DOMAIN date_range' |->
                        Count(closed_dates, date_range'[i])]
                /\ cumulative_created' = CumSum(created_counts')
                /\ cumulative_closed' = CumSum(closed_counts')
    /\ report' = "daily_trend"
    /\ UNCHANGED <<issues, fault, durations, top_n, top_assignees,
                   top_reporters, user_logged_times, priority_counts>>
    /\ UNCHANGED <<all_status_times, tisVars, fetchVars>>

GenerateUserTaskDistribution ==
    /\ report = "none"
    /\ \E n \in TopNs :
        /\ top_n' = n
        /\ top_assignees' = Take(SortedByCount(UserCounts(issues, "assignee")), n)
        /\ top_reporters' = Take(SortedByCount(UserCounts(issues, "reporter")), n)
    /\ report' = "user_distribution"
    /\ UNCHANGED <<issues, fault, durations, date_range, created_counts,
                   closed_counts, cumulative_created, cumulative_closed,
                   user_logged_times, priority_counts>>
    /\ UNCHANGED <<all_status_times, tisVars, fetchVars>>

GenerateLoggedTimeHistogram ==
    /\ report = "none"
    /\ LET out == UserLoggedTimes(issues)
       IN  /\ fault' = out.fault
           /\ user_logged_times' = out.value
    /\ report' = "logged_time"
    /\ UNCHANGED <<issues, durations, date_range, created_counts,
                   closed_counts, cumulative_created, cumulative_closed,
                   top_n, top_assignees, top_reporters, priority_counts>>
    /\ UNCHANGED <<all_status_times, tisVars, fetchVars>>

GeneratePriorityDistribution ==
    /\ report = "none"
    /\ LET out == PriorityCounts(issues)
       IN  /\ fault' = out.fault
           /\ priority_counts' = out.value
    /\ report' = "priority"
    /\ UNCHANGED <<issues, durations, date_range, created_counts,
                   closed_counts, cumulative_created, cumulative_closed,
                   top_n, top_assignees, top_reporters, user_logged_times>>
    /\ UNCHANGED <<all_status_times, tisVars, fetchVars>>

----------------------------------------------------------------------------
(* get_issues_by_project.  The tracker holds the issues 1..tracker_total   *)
(* of the project, in the order of the query, and answers a search with    *)
(* at most page_cap of them.  A request that fails makes _make_request     *)
(* return {}.                                                              *)

\* Page for a request that lacks params['startAt']: always the first page
PageIgnoringStart(startAt, maxResults) ==
    LET size == IF maxResults < page_cap THEN maxResults ELSE page_cap
        last == IF size < tracker_total THEN size ELSE tracker_total
    IN  [n \in 1..last |-> n]

\* response.get('issues', []) of a search at startAt with maxResults
Page(startAt, maxResults) ==
    LET size == IF maxResults < page_cap THEN maxResults ELSE page_cap
        last == IF startAt + size < tracker_total
                THEN startAt + size ELSE tracker_total
    IN  [n \in 1..(last - startAt) |-> startAt + n]

InitFetch ==
    /\ tracker_total \in 0..MaxTotal
    /\ max_results \in 1..MaxResults
    /\ page_cap \in 1..max_results
    /\ total_issues = 0
    /\ all_issues = <<>>
    /\ start_at = 0
    /\ count_failed = FALSE
    /\ failed_at = {}
    /\ fpc = "count"

IdleFetch ==
    /\ tracker_total = 0
    /\ max_results = 1
    /\ page_cap = 1
    /\ total_issues = 0
    /\ all_issues = <<>>
    /\ start_at = 0
    /\ count_failed = FALSE
    /\ failed_at = {}
    /\ fpc = "idle"

\* the request with maxResults 0; total_issues = response.get('total', 0)
RequestTotal ==
    /\ fpc = "count"
    /\ \E ok \in BOOLEAN :
        /\ total_issues' = IF ok THEN tracker_total ELSE 0
        /\ count_failed' = ~ok
    /\ all_issues' = <<>>
    /\ start_at' = 0
    /\ fpc' = "loop"
    /\ UNCHANGED <<tracker_total, page_cap, max_results, failed_at>>
    /\ UNCHANGED <<tisVars, aggVars>>

\* start_at += max_results
NextStart(start, size, page) == start + size

\* the body of `while start_at < total_issues`
FetchPage ==
    /\ fpc = "loop"
    /\ start_at < total_issues
    /\ \E ok \in BOOLEAN :
        LET page == IF ok THEN Page(start_at, max_results) ELSE <<>>
        IN  /\ all_issues' = all_issues \o page
            /\ start_at' = NextStart(start_at, max_results, page)
            /\ failed_at' = IF ok THEN failed_at ELSE failed_at \cup {start_at}
    /\ UNCHANGED <<tracker_total, page_cap, max_results, total_issues,
                   count_failed, fpc>>
    /\ UNCHANGED <<tisVars, aggVars>>

\* return all_issues
ReturnIssues ==
    /\ fpc = "loop"
    /\ ~(start_at < total_issues)
    /\ fpc' = "done"
    /\ UNCHANGED <<tracker_total, page_cap, max_results, total_issues,
                   all_issues, start_at, count_failed, failed_at>>
    /\ UNCHANGED <<tisVars, aggVars>>

----------------------------------------------------------------------------
(* Specifications *)

Next ==
    \/ GetIssueTransitions
    \/ ReturnEmpty
    \/ StartAccounting
    \/ ProcessTransition
    \/ HandleFinalStatus

\* one call of calculate_time_in_status
Init == InitTimeInStatus /\ IdleAggregate /\ IdleFetch

Spec == Init /\ [][Next]_vars

NextAgg ==
    \/ GenerateOpenDurationHistogram
    \/ GenerateStatusTimeDistribution
    \/ GenerateDailyTaskTrend
    \/ GenerateUserTaskDistribution
    \/ GenerateLoggedTimeHistogram
    \/ GeneratePriorityDistribution

\* one call of one generate_* method
InitAgg == IdleTimeInStatus /\ InitAggregate /\ IdleFetch

SpecAgg == InitAgg /\ [][NextAgg]_vars

NextFetch ==
    \/ RequestTotal
    \/ FetchPage
    \/ ReturnIssues

\* one call of get_issues_by_project
InitFetchOnly == IdleTimeInStatus /\ IdleAggregate /\ InitFetch

SpecFetch == InitFetchOnly /\ [][NextFetch]_vars

----------------------------------------------------------------------------
(* Properties of calculate_time_in_status *)

Returned == pc = "done"

\* the sum of the values of a dict
RECURSIVE SumValues(_)
SumValues(d) ==
    IF DOMAIN d = {} THEN 0
    ELSE LET k == CHOOSE x \in DOMAIN d : TRUE
         IN  d[k] + SumValues([x \in DOMAIN d \ {k} |-> d[x]])

LastTransition == transitions[Len(transitions)]

\* where the interval that ends at transition i starts
StartOf(i) == IF i = 1 THEN issue.created ELSE transitions[i - 1].timestamp

\* the total length of the intervals ending at one of the first n
\* transitions whose from_status is s
RECURSIVE IntervalSum(_, _)
IntervalSum(s, n) ==
    IF n = 0 THEN 0
    ELSE IntervalSum(s, n - 1)
         + (IF transitions[n].from_status = s
            THEN transitions[n].timestamp - StartOf(n)
            ELSE 0)

IntervalsOf(s) == IntervalSum(s, Len(transitions))

FromStatuses ==
    {transitions[i].from_status : i \in 1..Len(transitions)} \ {NoneStr}

Lifetime == issue.updated - issue.created

InScenario ==
    /\ issue = ScenarioIssue
    /\ transitions = GetIssueTransitionsOf(ScenarioHistories)

\* C1: an issue with no transition history and a terminal status gets a
\* one-entry map, keyed by its status, holding updated - created.
C1_NoHistoryCollapses ==
    (Returned /\ transitions = <<>> /\ IsClosedStatus(issue.status))
    => /\ DOMAIN result = {issue.status}
       /\ result[issue.status] = Lifetime

\* C2 as stated: for a terminal issue with transitions the values sum to
\* updated - created, less the interval before a first transition whose
\* from_status is null.
C2_TerminalIssueSum ==
    (Returned /\ transitions # <<>> /\ IsClosedStatus(issue.status))
    => SumValues(result)
       = Lifetime - (IF transitions[1].from_status = NoneStr
                     THEN transitions[1].timestamp - issue.created
                     ELSE 0)

\* C2 as amended: when the last transition leads to a terminal status the
\* values sum to updated - created less every interval that ends at a
\* transition whose from_status is null.
C2_TrackedTerminalSum ==
    (Returned /\ transitions # <<>> /\ IsClosedStatus(LastTransition.to_status))
    => SumValues(result) = Lifetime - IntervalsOf(NoneStr)

C2_Witness ==
    /\ Returned
    /\ Len(transitions) = 2
    /\ IsClosedStatus(LastTransition.to_status)
    /\ transitions[1].from_status = NoneStr
    /\ transitions[1].timestamp > issue.created
    /\ SumValues(result) > 0

\* C3: no value of the returned map is negative.
C3_NoNegativeDuration ==
    Returned => \A s \in DOMAIN result : result[s] >= 0

\* the final interval was left out: the map holds the intervals between
\* recorded events and nothing else
OnlyRecordedIntervals ==
    /\ DOMAIN result = FromStatuses
    /\ \A s \in DOMAIN result : result[s] = IntervalsOf(s)

\* C4 as stated: for a non-terminal issue with transitions the final
\* interval is not added and the values sum to less than updated - created.
C4_OpenIssueSumBelowLifetime ==
    (Returned /\ transitions # <<>> /\ ~IsClosedStatus(issue.status))
    => /\ OnlyRecordedIntervals
       /\ SumValues(result) < Lifetime

\* C4 as amended: when the last transition leads to a non-terminal status
\* the final interval is not added and the values sum to the time from
\* creation to the last transition, less the intervals that end at a
\* transition whose from_status is null.
C4_OpenTrackedSum ==
    (Returned /\ transitions # <<>> /\ ~IsClosedStatus(LastTransition.to_status))
    => /\ OnlyRecordedIntervals
       /\ SumValues(result)
          = (LastTransition.timestamp - issue.created) - IntervalsOf(NoneStr)

C4_Witness ==
    /\ Returned
    /\ transitions # <<>>
    /\ ~IsClosedStatus(LastTransition.to_status)
    /\ issue.updated > LastTransition.timestamp
    /\ SumValues(result) > 0

\* C5 as stated: every status is mapped to the total of the intervals that
\* end at a transition out of it, and the worked example gives
\* {"Open": 2.0, "In Progress": 7.0}.
C5_IntervalsPerStatus ==
    (Returned /\ transitions # <<>>)
    => /\ OnlyRecordedIntervals
       /\ InScenario => result = (Open :> 2) @@ (InProgress :> 7)

\* the final interval, under the status the last transition leads to
FinalOf(s) ==
    IF s = LastTransition.to_status /\ IsClosedStatus(s)
    THEN issue.updated - LastTransition.timestamp
    ELSE 0

\* C5 as amended: every status is mapped to the total of the intervals that
\* end at a transition out of it, plus the final interval (to updated) for
\* the terminal status the last transition leads to, which is a key even
\* when that interval is empty; the worked example gives
\* {"Open": 2.0, "In Progress": 7.0, "Done": 0.0}.
C5_IntervalsAndFinal ==
    (Returned /\ transitions # <<>>)
    => /\ DOMAIN result
            = FromStatuses
              \cup (IF IsClosedStatus(LastTransition.to_status)
                    THEN {LastTransition.to_status} ELSE {})
       /\ \A s \in DOMAIN result : result[s] = IntervalsOf(s) + FinalOf(s)
       /\ InScenario
            => result = (Open :> 2) @@ (InProgress :> 7) @@ (Done :> 0)

C5_Witness == Returned /\ InScenario

----------------------------------------------------------------------------
(* Properties of the generate_* methods *)

SameLetter(a, b) ==
    a = b \/ \E i \in DOMAIN UpperAlpha : {a, b} = {UpperAlpha[i], LowerAlpha[i]}

\* the name contains the word, whatever the case of its letters
ContainsIgnoringCase(word, name) ==
    \E off \in 0..(Len(name) - Len(word)) :
        \A j \in 1..Len(word) : SameLetter(name[off + j], word[j])

TerminalName(name) ==
    \E word \in {closed, resolved, done} : ContainsIgnoringCase(word, name)

\* updated - created of the issues with a terminal name, in list order
RECURSIVE TerminalLifetimes(_)
TerminalLifetimes(iss) ==
    IF iss = <<>> THEN <<>>
    ELSE LET i == iss[Len(iss)]
             before == TerminalLifetimes(SubSeq(iss, 1, Len(iss) - 1))
         IN  IF TerminalName(i.status)
             THEN Append(before, i.updated - i.created)
             ELSE before

\* C6: calculate_open_duration returns updated - created exactly for the
\* issues whose status name contains "closed", "resolved" or "done" in any
\* case, and None for the others, which the histogram's list leaves out.
C6_OpenDurationIffTerminal ==
    report = "open_duration"
    => /\ \A n \in DOMAIN issues :
            CalculateOpenDuration(issues[n])
            = IF TerminalName(issues[n].status)
              THEN [days |-> issues[n].updated - issues[n].created]
              ELSE None
       /\ durations = TerminalLifetimes(issues)

C6_Witness ==
    /\ report = "open_duration"
    /\ Len(issues) = 2
    /\ issues[1].status = Reopened
    /\ issues[2].status = DONE
    /\ durations = <<MaxTime>>

ObservedDates ==
    {issues[n].created : n \in DOMAIN issues}
    \cup {issues[n].updated : n \in {m \in DOMAIN issues : TerminalName(issues[m].status)}}

NonDecreasing(s) == \A n \in 1..(Len(s) - 1) : s[n] <= s[n + 1]

\* C7: the date range holds every day from the earliest to the latest
\* observed created or closed date once, with the day's counts (0 when
\* nothing happened), and the cumulative series never decrease and end at
\* the number of issues and of terminal issues.
C7_DailyTrendContiguous ==
    (report = "daily_trend" /\ issues # <<>>)
    => LET first == CHOOSE d \in ObservedDates : \A e \in ObservedDates : d <= e
           last == CHOOSE d \in ObservedDates : \A e \in ObservedDates : e <= d
       IN  /\ \A d \in first..last :
                Cardinality({n \in DOMAIN date_range : date_range[n] = d}) = 1
           /\ \A n \in DOMAIN date_range : date_range[n] \in first..last
           /\ Len(created_counts) = Len(date_range)
           /\ Len(closed_counts) = Len(date_range)
           /\ \A n \in DOMAIN date_range :
                /\ created_counts[n]
                   = Cardinality({m \in DOMAIN issues :
                                    issues[m].created = date_range[n]})
                /\ closed_counts[n]
                   = Cardinality({m \in DOMAIN issues :
                                    /\ TerminalName(issues[m].status)
                                    /\ issues[m].updated = date_range[n]})
           /\ Len(cumulative_created) = Len(date_range)
           /\ Len(cumulative_closed) = Len(date_range)
           /\ NonDecreasing(cumulative_created)
           /\ NonDecreasing(cumulative_closed)
           /\ cumulative_created[Len(date_range)] = Len(issues)
           /\ cumulative_closed[Len(date_range)]
              = Cardinality({m \in DOMAIN issues : TerminalName(issues[m].status)})

C7_Witness ==
    /\ report = "daily_trend"
    /\ Len(issues) = 2
    /\ Len(date_range) = 3
    /\ created_counts[2] = 0
    /\ closed_counts[2] = 0
    /\ cumulative_created = <<1, 1, 2>>
    /\ cumulative_closed[3] = 1

UserNames == {"Ann", "Bob", "Cy"}

\* the issue names this user in the field
NamedBy(i, field, name) ==
    /\ field \in DOMAIN i
    /\ "displayName" \in DOMAIN i[field]
    /\ i[field].displayName = name

Mentions(field, name) == {n \in DOMAIN issues : NamedBy(issues[n], field, name)}

UsersSeen(field) == {name \in UserNames : Mentions(field, name) # {}}

FirstSeen(field, name) ==
    CHOOSE n \in Mentions(field, name) : \A m \in Mentions(field, name) : n <= m

\* user a ranks before user b: more issues, or as many and seen first
RanksBefore(field, a, b) ==
    \/ Cardinality(Mentions(field, a)) > Cardinality(Mentions(field, b))
    \/ /\ Cardinality(Mentions(field, a)) = Cardinality(Mentions(field, b))
       /\ FirstSeen(field, a) < FirstSeen(field, b)

TopRanking(top, field) ==
    /\ Len(top) = IF top_n < Cardinality(UsersSeen(field))
                  THEN top_n ELSE Cardinality(UsersSeen(field))
    /\ \A n \in DOMAIN top :
        /\ top[n][1] \in UsersSeen(field)
        /\ top[n][2] = Cardinality(Mentions(field, top[n][1]))
    /\ \A n, m \in DOMAIN top :
        n < m => /\ top[n][2] >= top[m][2]
                 /\ RanksBefore(field, top[n][1], top[m][1])
    /\ \A name \in UsersSeen(field) \ {top[n][1] : n \in DOMAIN top} :
        \A n \in DOMAIN top : RanksBefore(field, top[n][1], name)

\* C8: both top-N rankings are in non-increasing order of count, users with
\* equal counts in the order in which the issue list first names them.
C8_RankingStable ==
    report = "user_distribution"
    => /\ TopRanking(top_assignees, "assignee")
       /\ TopRanking(top_reporters, "reporter")

C8_Witness ==
    /\ report = "user_distribution"
    /\ top_n = 2
    /\ Len(issues) = 3
    /\ top_assignees = <<<<"Cy", 1>>, <<"Bob", 1>>>>
    /\ top_reporters = <<<<"Ann", 2>>, <<"Bob", 1>>>>

\* the field is absent from the issue, or null
Missing(i, field) == field \notin DOMAIN i \/ i[field] = None

\* the hours logged on the first n issues that name the user as assignee
RECURSIVE HoursLogged(_, _)
HoursLogged(name, n) ==
    IF n = 0 THEN 0
    ELSE HoursLogged(name, n - 1)
         + (IF /\ ~Missing(issues[n], "timetracking")
               /\ "timeSpentSeconds" \in DOMAIN issues[n].timetracking
               /\ NamedBy(issues[n], "assignee", name)
            THEN issues[n].timetracking.timeSpentSeconds \div SecondsPerHour
            ELSE 0)

\* C9: an issue whose assignee, priority or logged time is absent or null
\* raises no fault in the aggregators; it is left out of the assignee
\* count and of the logged-time sum and counted as priority "Unknown".
C9_MissingFieldsTolerated ==
    /\ report \in {"user_distribution", "logged_time", "priority"}
         => fault = NoFault
    /\ report = "user_distribution"
         => \A n \in DOMAIN top_assignees :
               top_assignees[n][2]
               = Cardinality(Mentions("assignee", top_assignees[n][1]))
    /\ report = "logged_time"
         => /\ DOMAIN user_logged_times \subseteq UsersSeen("assignee")
            /\ \A name \in DOMAIN user_logged_times :
                 user_logged_times[name] = HoursLogged(name, Len(issues))
    /\ report = "priority"
         => (IF "Unknown" \in DOMAIN priority_counts
             THEN priority_counts["Unknown"] ELSE 0)
            = Cardinality({n \in DOMAIN issues : Missing(issues[n], "priority")})

----------------------------------------------------------------------------
(* Properties of get_issues_by_project *)

\* C10: when every request succeeds, the call returns each of the
\* tracker's issues exactly once, whatever the size of the pages the
\* tracker returns.
C10_EveryIssueOnce ==
    (fpc = "done" /\ ~count_failed /\ failed_at = {})
    => /\ Len(all_issues) = tracker_total
       /\ \A k \in 1..tracker_total :
            Cardinality({n \in DOMAIN all_issues : all_issues[n] = k}) = 1

\* the issues the tracker returns for the page requested at startAt s
IssuesAt(s) ==
    LET size == IF max_results < page_cap THEN max_results ELSE page_cap
        last == IF s + size < tracker_total THEN s + size ELSE tracker_total
    IN  [n \in 1..(last - s) |-> s + n]

\* how many pages the loop requests
PagesRequested == (total_issues + max_results - 1) \div max_results

\* the issues of the first k pages whose request succeeded
RECURSIVE SucceededPages(_)
SucceededPages(k) ==
    IF k = 0 THEN <<>>
    ELSE SucceededPages(k - 1)
         \o (IF (k - 1) * max_results \in failed_at
             THEN <<>>
             ELSE IssuesAt((k - 1) * max_results))

\* the first page whose request failed
FirstFailedPage ==
    CHOOSE k \in 0..PagesRequested :
        /\ k * max_results \in failed_at
        /\ \A j \in 0..(k - 1) : j * max_results \notin failed_at

\* C11 as stated: a failed request raises nothing; a failed count request
\* gives an empty list, and after a failed page request the call returns
\* the issues of the pages before the failing one.
C11_PagesBeforeFailure ==
    fpc = "done"
    => /\ count_failed => all_issues = <<>>
       /\ failed_at # {} => all_issues = SucceededPages(FirstFailedPage)

\* C11 as amended: a failed request raises nothing; a failed count request
\* gives an empty list, and a failed page request contributes no issues
\* while the loop goes on, so that the call returns the issues of every
\* page whose request succeeded, before and after a failing one.
C11_SucceededPagesReturned ==
    fpc = "done"
    => /\ count_failed => all_issues = <<>>
       /\ all_issues = SucceededPages(PagesRequested)

C11_Witness ==
    /\ fpc = "done"
    /\ ~count_failed
    /\ failed_at = {0}
    /\ all_issues # <<>>

----------------------------------------------------------------------------
(* The frame of one loop iteration of calculate_time_in_status *)

\* the loop is about to process a transition whose from_status is null
AtNullFrom ==
    /\ pc = "loop"
    /\ idx <= Len(transitions)
    /\ transitions[idx].from_status = NoneStr

\* C13: a transition whose from_status is null leaves every entry of the
\* duration map as it was, while the cursor moves to the transition's
\* timestamp and the tracked status becomes its to_status.
C13_NullFromLeavesMap ==
    [][(AtNullFrom /\ idx' = idx + 1)
       => /\ time_in_status' = time_in_status
          /\ status_start_time' = transitions[idx].timestamp
          /\ current_status' = transitions[idx].to_status]_vars

C13_Witness ==
    /\ pc = "loop"
    /\ idx = 3
    /\ transitions[2].from_status = NoneStr
    /\ transitions[2].timestamp > transitions[1].timestamp
    /\ DOMAIN time_in_status # {}
    /\ status_start_time = transitions[2].timestamp
    /\ current_status = transitions[2].to_status

----------------------------------------------------------------------------
(* Order of the issue list *)

\* the rearrangements of the positions of a list
Bijections(n) ==
    {f \in [1..n -> 1..n] : \A a, b \in 1..n : f[a] = f[b] => a = b}

\* every list made of the same issues as iss, in some order
Orderings(iss) ==
    {[n \in DOMAIN iss |-> iss[f[n]]] : f \in Bijections(Len(iss))}

\* two lists holding the same values the same number of times
SameMultiset(s, t) ==
    /\ Len(s) = Len(t)
    /\ \A n \in DOMAIN s :
         Cardinality({m \in DOMAIN s : s[m] = s[n]})
         = Cardinality({m \in DOMAIN t : t[m] = s[n]})

\* the aggregates other than the rankings, computed from the list p,
\* are those the report holds
SameAggregates(p) ==
    /\ report = "open_duration" => SameMultiset(OpenDurations(p), durations)
    /\ report = "status_time"
       => LET times == AllStatusTimes(p)
          IN  /\ DOMAIN times = DOMAIN all_status_times
              /\ \A status \in DOMAIN times :
                   SameMultiset(times[status], all_status_times[status])
    /\ (report = "daily_trend" /\ issues # <<>>)
       => LET created_dates == CreatedDates(p)
              closed_dates == ClosedDates(p)
          IN  /\ Elements(created_dates \o closed_dates) = ObservedDates
              /\ \A n \in DOMAIN date_range :
                   /\ created_counts[n] = Count(created_dates, date_range[n])
                   /\ closed_counts[n] = Count(closed_dates, date_range[n])
                   /\ cumulative_created[n]
                      = Cardinality({m \in DOMAIN created_dates :
                                       created_dates[m] <= date_range[n]})
                   /\ cumulative_closed[n]
                      = Cardinality({m \in DOMAIN closed_dates :
                                       closed_dates[m] <= date_range[n]})
    /\ report = "logged_time"
       => LET out == UserLoggedTimes(p)
          IN  /\ out.fault = fault
              /\ fault = NoFault => out.value = user_logged_times
    /\ report = "priority"
       => LET out == PriorityCounts(p)
          IN  /\ out.fault = fault
              /\ fault = NoFault => out.value = priority_counts

\* C12 as stated: every aggregate, the assignee and reporter top-N
\* rankings included, is the same for every permutation of the issue list
C12_AggregatesOrderIndependent ==
    report \notin {"none", "idle"}
    => \A p \in Orderings(issues) :
         /\ SameAggregates(p)
         /\ report = "user_distribution"
            => /\ Take(SortedByCount(UserCounts(p, "assignee")), top_n)
                  = top_assignees
               /\ Take(SortedByCount(UserCounts(p, "reporter")), top_n)
                  = top_reporters

\* the ranking of the list p has the counts of the ranking `top` at every
\* rank, and the same user wherever no other user has that user's count
SameUpToTies(p, field, top) ==
    LET ranking == Take(SortedByCount(UserCounts(p, field)), top_n)
    IN  \/ ranking = top
        \/ /\ Len(ranking) = Len(top)
           /\ \A n \in DOMAIN top :
                /\ ranking[n][2] = top[n][2]
                /\ \/ ranking[n] = top[n]
                   \/ \E name \in UserNames \ {top[n][1]} :
                        Cardinality(Mentions(field, name)) = top[n][2]

\* C12, amended: the open durations, the per-status durations, the daily
\* counts, the logged hours and the priority counts are the same for every
\* permutation of the issue list; the top-N rankings have the same counts
\* at every rank and differ at most in which users of equal count they
\* show, and in what order
C12_OrderIndependentUpToTies ==
    report \notin {"none", "idle"}
    => \A p \in Orderings(issues) :
         /\ SameAggregates(p)
         /\ report = "user_distribution"
            => /\ SameUpToTies(p, "assignee", top_assignees)
               /\ SameUpToTies(p, "reporter", top_reporters)

C12_Witness ==
    /\ report = "user_distribution"
    /\ top_n = 1
    /\ Len(issues) = 2
    /\ NamedBy(issues[1], "assignee", "Bob")
    /\ NamedBy(issues[2], "assignee", "Ann")
    /\ top_assignees = <<<<"Bob", 1>>>>

====
